---- MODULE Spec2Model ----
(***************************************************************************)
(* A model of the link manager (src/src/links.c).                          *)
(*                                                                         *)
(* One process is one invocation of main: it decodes links_data.xml into   *)
(* an empty in-memory store, runs one command handler on it and encodes    *)
(* the store back.  The store is a list of modules, each owning a singly   *)
(* linked list of ports; the port lists are modelled with their next       *)
(* pointers, because cmd_move_port rewires them.                           *)
(*                                                                         *)
(* A C string is a sequence of one-character strings (without the final    *)
(* NUL).  The persisted file is a sequence of lines of such characters, so *)
(* that the decoder's strstr/strchr/sscanf work on what the encoder's      *)
(* fprintf wrote.                                                          *)
(*                                                                         *)
(* Assumptions of the model: the file can always be opened for reading and *)
(* writing once it exists; no printed line reaches fgets' 512 bytes (five  *)
(* fields of at most 63 characters do not); the module list, which is only *)
(* ever appended to, is a sequence instead of a chain of next pointers.    *)
(***************************************************************************)
EXTENDS Integers, Sequences, FiniteSets, TLC

VARIABLES
    file,   \* links_data.xml: its lines, <<>> while the file does not exist
    pc,     \* where the current invocation stands
    argv,   \* the current invocation's verb and arguments
    mem,    \* the process's store: root_modules and the malloc'ed ports
    mem0,   \* ghost: the store as load_xml left it, before the handler ran
    out,    \* what the handler printed (and cmd_dot's edge statements)
    saved,  \* ghost: the store (as View) that the last save_xml encoded
    hist,   \* ghost: the previous invocation, when it was a successful add/mvu
    n       \* ghost: the number of invocations started so far

vars == <<file, pc, argv, mem, mem0, out, saved, hist, n>>

MAX_STR == 64
NULL == 0

Min(S) == CHOOSE i \in S : \A j \in S : i <= j

Range(s) == {s[i] : i \in 1..Len(s)}

(***************************************************************************)
(* Strings                                                                 *)
(***************************************************************************)
QUOTE == "\""

\* strncpy(dst, s, k); dst[k] = '\0'
Trunc(s, k) == IF Len(s) > k THEN SubSeq(s, 1, k) ELSE s

\* the suffix of s that starts at index i (a char* into s)
From(s, i) == SubSeq(s, i, Len(s))

\* strstr that finds the last occurrence of pat instead of the first
strstr_Last(s, pat) ==
    LET I == {i \in 1..(Len(s) - Len(pat) + 1) : SubSeq(s, i, i + Len(pat) - 1) = pat}
    IN  IF I = {} THEN 0 ELSE CHOOSE i \in I : \A j \in I : j <= i

\* strstr(s, pat): the index of the first occurrence of pat in s, 0 if none
strstr(s, pat) ==
    LET I == {i \in 1..(Len(s) - Len(pat) + 1) : SubSeq(s, i, i + Len(pat) - 1) = pat}
    IN  IF I = {} THEN 0 ELSE Min(I)

\* strchr(s, c): the index of the first c in s, 0 if none
strchr(s, c) ==
    LET I == {i \in 1..Len(s) : s[i] = c}
    IN  IF I = {} THEN 0 ELSE Min(I)

sIn == <<"i", "n">>
sOut == <<"o", "u", "t">>
sNone == <<"n", "o", "n", "e">>
sUnknown == <<"u", "n", "k", "n", "o", "w", "n">>

dir_to_str(d) ==
    IF d = "DIR_IN" THEN sIn
    ELSE IF d = "DIR_OUT" THEN sOut
    ELSE sNone

\* str_to_dir that knows no direction token
str_to_dir_None(s) == "DIR_NONE"

str_to_dir(s) ==
    IF s = sIn THEN "DIR_IN"
    ELSE IF s = sOut THEN "DIR_OUT"
    ELSE "DIR_NONE"

(***************************************************************************)
(* The store: get_module and get_port                                      *)
(***************************************************************************)
\* mods[i] = [name, ports (head pointer)]; heap[a] = the Port at address a
EmptyStore == [mods |-> <<>>, heap |-> <<>>]

\* The ports met by following next from address a, until NULL or until a
\* port is met a second time (the chain then never ends).
RECURSIVE Chain(_, _, _)
Chain(heap, a, acc) ==
    IF a = NULL \/ a \in Range(acc) THEN acc
    ELSE Chain(heap, heap[a].next, Append(acc, a))

\* Does following next from a come back to a port already met?
RECURSIVE Cyclic(_, _, _)
Cyclic(heap, a, seen) ==
    IF a = NULL THEN FALSE
    ELSE IF a \in seen THEN TRUE
    ELSE Cyclic(heap, heap[a].next, seen \cup {a})

\* get_module whose non-creating lookup never misses in a store that has
\* modules: it answers with the first module when none has the name
get_module_FirstOnMiss(st, name, create) ==
    IF name = <<>> THEN [st |-> st, m |-> NULL]
    ELSE LET I == {i \in 1..Len(st.mods) : st.mods[i].name = name}
         IN  IF I /= {} THEN [st |-> st, m |-> Min(I)]
             ELSE IF ~create
             THEN [st |-> st, m |-> IF Len(st.mods) > 0 THEN 1 ELSE NULL]
             ELSE [st |-> [st EXCEPT !.mods =
                              Append(@, [name |-> Trunc(name, MAX_STR - 1),
                                         ports |-> NULL])],
                   m |-> Len(st.mods) + 1]

\* get_module: [st |-> the store afterwards, m |-> the module's index or NULL]
get_module(st, name, create) ==
    IF name = <<>> THEN [st |-> st, m |-> NULL]
    ELSE LET I == {i \in 1..Len(st.mods) : st.mods[i].name = name}
         IN  IF I /= {} THEN [st |-> st, m |-> Min(I)]
             ELSE IF ~create THEN [st |-> st, m |-> NULL]
             ELSE [st |-> [st EXCEPT !.mods =
                              Append(@, [name |-> Trunc(name, MAX_STR - 1),
                                         ports |-> NULL])],
                   m |-> Len(st.mods) + 1]

\* The scan of get_port and find_port_with_prev: the first port named
\* port_name on the chain from cur, with the port before it.
RECURSIVE ScanPorts(_, _, _, _)
ScanPorts(heap, cur, prev, port_name) ==
    IF cur = NULL THEN [p |-> NULL, prev |-> prev]
    ELSE IF heap[cur].name = port_name THEN [p |-> cur, prev |-> prev]
    ELSE ScanPorts(heap, heap[cur].next, cur, port_name)

\* get_port that links a new port in at the head of the module's chain
get_port_AtHead(st, m, port_name, create) ==
    IF m = NULL \/ port_name = <<>> THEN [st |-> st, p |-> NULL]
    ELSE LET r == ScanPorts(st.heap, st.mods[m].ports, NULL, port_name)
             a == Len(st.heap) + 1
             new_port == [name |-> Trunc(port_name, MAX_STR - 1),
                          type |-> <<>>, dir |-> "DIR_NONE",
                          dest_module |-> <<>>, dest_port |-> <<>>,
                          next |-> st.mods[m].ports]
         IN  IF r.p /= NULL THEN [st |-> st, p |-> r.p]
             ELSE IF ~create THEN [st |-> st, p |-> NULL]
             ELSE [st |-> [mods |-> [st.mods EXCEPT ![m].ports = a],
                           heap |-> Append(st.heap, new_port)],
                   p |-> a]

\* get_port: [st |-> the store afterwards, p |-> the port's address or NULL]
get_port(st, m, port_name, create) ==
    IF m = NULL \/ port_name = <<>> THEN [st |-> st, p |-> NULL]
    ELSE LET r == ScanPorts(st.heap, st.mods[m].ports, NULL, port_name)
             a == Len(st.heap) + 1
             new_port == [name |-> Trunc(port_name, MAX_STR - 1),
                          type |-> <<>>, dir |-> "DIR_NONE",
                          dest_module |-> <<>>, dest_port |-> <<>>,
                          next |-> NULL]
         IN  IF r.p /= NULL THEN [st |-> st, p |-> r.p]
             ELSE IF ~create THEN [st |-> st, p |-> NULL]
             ELSE [st |-> [mods |-> IF r.prev /= NULL THEN st.mods
                                    ELSE [st.mods EXCEPT ![m].ports = a],
                           heap |-> IF r.prev /= NULL
                                    THEN Append([st.heap EXCEPT ![r.prev].next = a],
                                                new_port)
                                    ELSE Append(st.heap, new_port)],
                   p |-> a]

\* find_port_with_prev that reports the first port as its own predecessor
find_port_with_prev_NoFirst(st, m, port_name) ==
    IF m = NULL \/ port_name = <<>> THEN [p |-> NULL, prev |-> NULL]
    ELSE LET r == ScanPorts(st.heap, st.mods[m].ports, NULL, port_name)
         IN  IF r.p = NULL THEN [p |-> NULL, prev |-> NULL]
             ELSE IF r.prev = NULL THEN [p |-> r.p, prev |-> r.p] ELSE r

find_port_with_prev(st, m, port_name) ==
    IF m = NULL \/ port_name = <<>> THEN [p |-> NULL, prev |-> NULL]
    ELSE LET r == ScanPorts(st.heap, st.mods[m].ports, NULL, port_name)
         IN  IF r.p = NULL THEN [p |-> NULL, prev |-> NULL] ELSE r

(***************************************************************************)
(* parse_arg_safe: "mod::port:type", "mod::port" or "mod"                  *)
(***************************************************************************)
\* ModulePart without the cut: the name is looked up at its full length
ModulePart_NoCut(input, sep_mod) ==
    IF sep_mod /= 0 THEN SubSeq(input, 1, sep_mod - 1) ELSE input

\* m_out: the text before the "::" at sep_mod, or the whole token when
\* there is none (sep_mod = 0), cut to what a name buffer holds
ModulePart(input, sep_mod) ==
    IF sep_mod /= 0
    THEN Trunc(SubSeq(input, 1, sep_mod - 1), MAX_STR - 1)
    ELSE Trunc(input, MAX_STR - 1)

parse_arg_safe(input) ==
    IF input = <<>> THEN [ok |-> FALSE, m |-> <<>>, p |-> <<>>, t |-> <<>>]
    ELSE
    LET sep_mod == strstr(input, <<":", ":">>)
        rest == From(input, sep_mod + 2)
        sep_type == strchr(rest, ":")
        m_out == ModulePart(input, sep_mod)
        p_out == IF sep_mod = 0 THEN <<>>
                 ELSE IF sep_type /= 0
                      THEN Trunc(SubSeq(rest, 1, sep_type - 1), MAX_STR - 1)
                      ELSE Trunc(rest, MAX_STR - 1)
        t_out == IF sep_mod /= 0 /\ sep_type /= 0
                 THEN Trunc(From(rest, sep_type + 1), MAX_STR - 1)
                 ELSE <<>>
    IN  [ok |-> Len(m_out) > 0, m |-> m_out, p |-> p_out, t |-> t_out]

(***************************************************************************)
(* save_xml: what fprintf writes, line by line                             *)
(***************************************************************************)
fRoot == <<"<", "r", "o", "o", "t", ">">>
fModule == <<" ", " ", "<", "m", "o", "d", "u", "l", "e", " ", "n", "a", "m", "e", "=", "\"">>
fModuleGt == <<"\"", ">">>
fPort == <<" ", " ", " ", " ", "<", "p", "o", "r", "t", " ", "n", "a", "m", "e", "=", "\"">>
fType == <<"\"", " ", "t", "y", "p", "e", "=", "\"">>
fDir == <<"\"", " ", "d", "i", "r", "=", "\"">>
fDestMod == <<"\"", " ", "d", "e", "s", "t", "_", "m", "o", "d", "=", "\"">>
fDestPort == <<"\"", " ", "d", "e", "s", "t", "_", "p", "o", "r", "t", "=", "\"">>
fPortEnd == <<"\"", " ", "/", ">">>
fModuleEnd == <<" ", " ", "<", "/", "m", "o", "d", "u", "l", "e", ">">>
fRootEnd == <<"<", "/", "r", "o", "o", "t", ">">>

ModuleLine(m) == fModule \o m.name \o fModuleGt

PortLine(p) ==
    fPort \o p.name \o fType \o p.type \o fDir \o dir_to_str(p.dir)
          \o fDestMod \o p.dest_module \o fDestPort \o p.dest_port \o fPortEnd

\* The lines of one module: its opening line, one line per port on its chain
\* and, when the chain ends, its closing line.
ModuleLines(st, i) ==
    LET c == Chain(st.heap, st.mods[i].ports, <<>>)
    IN  <<ModuleLine(st.mods[i])>>
        \o [k \in 1..Len(c) |-> PortLine(st.heap[c[k]])]
        \o IF Cyclic(st.heap, st.mods[i].ports, {}) THEN <<>> ELSE <<fModuleEnd>>

\* The loop `while (m)` of save_xml from module i on; it stops inside the
\* first module whose port chain never ends.
RECURSIVE SaveFrom(_, _)
SaveFrom(st, i) ==
    IF i > Len(st.mods) THEN <<fRootEnd>>
    ELSE IF Cyclic(st.heap, st.mods[i].ports, {}) THEN ModuleLines(st, i)
    ELSE ModuleLines(st, i) \o SaveFrom(st, i + 1)

\* Does save_xml return?  Its inner loop `while (p)` ends only at a NULL.
SaveReturns(st) ==
    \A i \in 1..Len(st.mods) : ~Cyclic(st.heap, st.mods[i].ports, {})

\* The file save_xml has written when it returns; when it does not return,
\* the lines written up to the first time a port is met again.
\* save_xml that writes the root element and nothing of the store
save_xml_RootOnly(st) == <<fRoot, fRootEnd>>

save_xml(st) == <<fRoot>> \o SaveFrom(st, 1)

(***************************************************************************)
(* load_xml: strstr, strchr and sscanf on each line                        *)
(***************************************************************************)
sModuleTag == <<"<", "m", "o", "d", "u", "l", "e">>
sNameEq == <<"n", "a", "m", "e", "=", "\"">>
sPortTag == <<"<", "p", "o", "r", "t">>

\* The format of the sscanf call, directive by directive: "ws" is white
\* space in the format (any amount of white space in the input, also none),
\* "scan" is %[^"], "lit" is text that must match character by character.
Ws == [k |-> "ws", s |-> <<>>]
ScanSet == [k |-> "scan", s |-> <<>>]
Lit(s) == [k |-> "lit", s |-> s]
PortFormat ==
    << Ws, Lit(sPortTag), Ws, Lit(sNameEq), ScanSet, Lit(<<QUOTE>>), Ws,
       Lit(<<"t", "y", "p", "e", "=", QUOTE>>), ScanSet, Lit(<<QUOTE>>), Ws,
       Lit(<<"d", "i", "r", "=", QUOTE>>), ScanSet, Lit(<<QUOTE>>), Ws,
       Lit(<<"d", "e", "s", "t", "_", "m", "o", "d", "=", QUOTE>>), ScanSet,
       Lit(<<QUOTE>>), Ws,
       Lit(<<"d", "e", "s", "t", "_", "p", "o", "r", "t", "=", QUOTE>>), ScanSet,
       Lit(<<QUOTE>>) >>

\* the index of the first character at or after pos that is not white space
SkipSpace(line, pos) ==
    Min({i \in pos..(Len(line) + 1) : i > Len(line) \/ line[i] /= " "})

\* the index of the first quote at or after pos, Len(line) + 1 if none
ScanSetEnd(line, pos) ==
    Min({i \in pos..(Len(line) + 1) : i > Len(line) \/ line[i] = QUOTE})

\* sscanf: the conversions assigned, in order, until the first directive
\* that does not match (%[^"] does not match the empty string).
RECURSIVE sscanf(_, _, _, _, _)
sscanf(line, pos, fmt, d, assigned) ==
    IF d > Len(fmt) THEN assigned
    ELSE IF fmt[d].k = "ws"
    THEN sscanf(line, SkipSpace(line, pos), fmt, d + 1, assigned)
    ELSE IF fmt[d].k = "scan"
    THEN LET e == ScanSetEnd(line, pos)
         IN  IF e = pos THEN assigned
             ELSE sscanf(line, e, fmt, d + 1, Append(assigned, SubSeq(line, pos, e - 1)))
    ELSE LET e == pos + Len(fmt[d].s)
         IN  IF e - 1 <= Len(line) /\ SubSeq(line, pos, e - 1) = fmt[d].s
             THEN sscanf(line, e, fmt, d + 1, assigned)
             ELSE assigned

\* the k-th buffer after the sscanf: cleared first, so empty if not assigned
Buffer(assigned, k) == IF k <= Len(assigned) THEN assigned[k] ELSE <<>>

\* One iteration of the fgets loop.  acc = [st, current_mod, crashed];
\* crashed: the line made load_xml write through a NULL pointer.
LoadLine(acc, line) ==
    IF acc.crashed THEN acc
    ELSE IF strstr(line, sModuleTag) /= 0
    THEN LET at == strstr(line, sNameEq)
             name_start == From(line, at + 6)
             name_end == strchr(name_start, QUOTE)
             r == get_module(acc.st, SubSeq(name_start, 1, name_end - 1), TRUE)
         IN  IF at = 0 THEN [acc EXCEPT !.crashed = TRUE]
             ELSE IF name_end = 0 THEN acc
             ELSE [st |-> r.st, current_mod |-> r.m, crashed |-> FALSE]
    ELSE IF strstr(line, sPortTag) /= 0 /\ acc.current_mod /= NULL
    THEN LET f == sscanf(line, 1, PortFormat, 1, <<>>)
             r == get_port(acc.st, acc.current_mod, Buffer(f, 1), TRUE)
         IN  IF r.p = NULL THEN [acc EXCEPT !.crashed = TRUE]
             ELSE [acc EXCEPT !.st =
                     [r.st EXCEPT !.heap[r.p].type = Trunc(Buffer(f, 2), MAX_STR - 1),
                                  !.heap[r.p].dir = str_to_dir(Buffer(f, 3)),
                                  !.heap[r.p].dest_module = Trunc(Buffer(f, 4), MAX_STR - 1),
                                  !.heap[r.p].dest_port = Trunc(Buffer(f, 5), MAX_STR - 1)]]
    ELSE acc

RECURSIVE LoadLines(_, _, _)
LoadLines(acc, lines, k) ==
    IF k > Len(lines) \/ acc.crashed THEN acc
    ELSE LoadLines(LoadLine(acc, lines[k]), lines, k + 1)

\* load_xml into st: [st |-> the store afterwards, crashed |-> ...]
load_xml(st, lines) ==
    LoadLines([st |-> st, current_mod |-> NULL, crashed |-> FALSE], lines, 1)

(***************************************************************************)
(* Command handlers: [st |-> the store afterwards, out |-> lines printed]  *)
(* args is argv[2..], so argc = Len(args) + 2.                             *)
(***************************************************************************)
\* LinkPorts without "Clear dest info on IN port just in case"
LinkPorts_NoClear(st, ps, pd, d_mod, d_port) ==
    [st EXCEPT !.heap[ps].dir = "DIR_OUT",
               !.heap[ps].dest_module = Trunc(d_mod, MAX_STR - 1),
               !.heap[ps].dest_port = Trunc(d_port, MAX_STR - 1),
               !.heap[pd].dir = "DIR_IN"]

\* "5. Link": the source port points at the destination, the destination
\* port becomes an input and its own destination is cleared
LinkPorts(st, ps, pd, d_mod, d_port) ==
    LET st3 == [st EXCEPT !.heap[ps].dir = "DIR_OUT",
                          !.heap[ps].dest_module = Trunc(d_mod, MAX_STR - 1),
                          !.heap[ps].dest_port = Trunc(d_port, MAX_STR - 1)]
    IN  [st3 EXCEPT !.heap[pd].dir = "DIR_IN",
                    !.heap[pd].dest_module = <<>>,
                    !.heap[pd].dest_port = <<>>]

\* cmd_add that gets-or-creates the source module before it validates
cmd_add_CreateFirst(st, args) ==
    IF Len(args) = 0
    THEN [st |-> st, out |-> <<<<"Error: 'add' requires source and destination.">>>>]
    ELSE [st |-> get_module(st, parse_arg_safe(args[1]).m, TRUE).st,
          out |-> <<<<"Error: Invalid destination format.">>>>]

cmd_add(st, args) ==
    IF Len(args) /= 2
    THEN [st |-> st, out |-> <<<<"Error: 'add' requires source and destination.">>>>]
    ELSE
    LET s == parse_arg_safe(args[1])
        d == parse_arg_safe(args[2])
        s_type == IF s.t = <<>> THEN sUnknown ELSE s.t
        d_port == IF d.p = <<>> THEN s.p ELSE d.p
        d_type == IF d.t = <<>> THEN s_type ELSE d.t
        ms == get_module(st, s.m, TRUE)
        ps == get_port(ms.st, ms.m, s.p, TRUE)
        st1 == [ps.st EXCEPT !.heap[ps.p].type = Trunc(s_type, MAX_STR - 1)]
        md == get_module(st1, d.m, TRUE)
        pd == get_port(md.st, md.m, d_port, TRUE)
        st2 == [pd.st EXCEPT !.heap[pd.p].type = Trunc(d_type, MAX_STR - 1)]
        st4 == LinkPorts(st2, ps.p, pd.p, d.m, d_port)
    IN  IF ~s.ok THEN [st |-> st, out |-> <<<<"Error: Invalid source format.">>>>]
        ELSE IF ~d.ok THEN [st |-> st, out |-> <<<<"Error: Invalid destination format.">>>>]
        ELSE IF s.p = <<>>
        THEN [st |-> st, out |-> <<<<"Error: Source must specify a port">>>>]
        ELSE [st |-> st4,
              out |-> (IF d.p = <<>>
                       THEN <<<<"Info: Dest port not specified, using", d_port>>>>
                       ELSE <<>>)
                      \o <<<<"Linked", s.m, s.p, s_type, d.m, d_port, d_type>>>>]

cmd_remove(st, args) ==
    IF Len(args) /= 2 THEN [st |-> st, out |-> <<<<"Usage: links remove">>>>]
    ELSE
    LET s == parse_arg_safe(args[1])
        d == parse_arg_safe(args[2])
        m == get_module(st, s.m, FALSE).m
        p == get_port(st, m, s.p, FALSE).p
    IN  IF m = NULL THEN [st |-> st, out |-> <<>>]
        ELSE IF p = NULL THEN [st |-> st, out |-> <<>>]
        ELSE IF st.heap[p].dest_module = d.m /\ st.heap[p].dest_port = d.p
        THEN [st |-> [st EXCEPT !.heap[p].dest_module = <<>>,
                                !.heap[p].dest_port = <<>>,
                                !.heap[p].dir = "DIR_NONE"],
              out |-> <<<<"Link removed.">>>>]
        ELSE [st |-> st, out |-> <<<<"Link not found.">>>>]

cmd_edit(st, args) ==
    IF Len(args) /= 3
    THEN [st |-> st, out |-> <<<<"Error: 'edit' requires module, port, and new type.">>>>]
    ELSE
    LET t == parse_arg_safe(args[1])
        new_type == args[2]
        new_dir == str_to_dir(args[3])
        m == get_module(st, t.m, FALSE).m
        p == get_port(st, m, t.p, FALSE).p
        st1 == [st EXCEPT !.heap[p].type = Trunc(new_type, MAX_STR - 1)]
        st2 == IF new_dir = "DIR_NONE" \/ new_dir = "DIR_IN"
               THEN [st1 EXCEPT !.heap[p].dest_module = <<>>,
                                !.heap[p].dest_port = <<>>]
               ELSE st1
        st3 == [st2 EXCEPT !.heap[p].dir = new_dir]
    IN  IF ~t.ok THEN [st |-> st, out |-> <<<<"Error: Invalid argument format for Module::Port.">>>>]
        ELSE IF t.p = <<>> THEN [st |-> st, out |-> <<<<"Error: Must specify a port">>>>]
        ELSE IF m = NULL THEN [st |-> st, out |-> <<<<"Error: Module not found.", t.m>>>>]
        ELSE IF p = NULL THEN [st |-> st, out |-> <<<<"Error: Port not found.", t.m, t.p>>>>]
        ELSE [st |-> st3,
              out |-> <<<<"Edited port", t.m, t.p, st3.heap[p].type,
                          dir_to_str(st3.heap[p].dir)>>>>]

\* `while (finder && finder->next != target_port) finder = finder->next`
RECURSIVE Finder(_, _, _)
Finder(heap, finder, target_port) ==
    IF finder /= NULL /\ heap[finder].next /= target_port
    THEN Finder(heap, heap[finder].next, target_port)
    ELSE finder

\* TargetPrevUp without the finder loop: the moved port always becomes the head
TargetPrevUp_NoFinder(st, m, target_port) == NULL

\* move up: the port before target_port, NULL when target_port is the first
TargetPrevUp(st, m, target_port) ==
    IF st.mods[m].ports = target_port THEN NULL
    ELSE Finder(st.heap, st.mods[m].ports, target_port)

\* move down: the code takes the moved port itself as "the port before the
\* target" (target_prev = cur_port)
TargetPrevDown(st, m, cur_port) == cur_port

\* "Perform Swap of target_port and cur_port in the list", three assignments
SwapPorts(st, m, cur_port, target_port, target_prev) ==
    LET s1 == IF target_prev /= NULL
              THEN [st EXCEPT !.heap[target_prev].next = cur_port]
              ELSE [st EXCEPT !.mods[m].ports = cur_port]
        s2 == [s1 EXCEPT !.heap[target_port].next = s1.heap[cur_port].next]
    IN  [s2 EXCEPT !.heap[cur_port].next = target_port]

cmd_move_port(st, args, move_up) ==
    IF Len(args) /= 1 THEN [st |-> st, out |-> <<<<"Error: requires a target port.">>>>]
    ELSE
    LET t == parse_arg_safe(args[1])
        m == get_module(st, t.m, FALSE).m
        f == find_port_with_prev(st, m, t.p)
        cur_port == f.p
        prev_port == f.prev
        target_port == IF move_up THEN prev_port ELSE st.heap[cur_port].next
        target_prev == IF move_up THEN TargetPrevUp(st, m, target_port)
                       ELSE TargetPrevDown(st, m, cur_port)
    IN  IF ~t.ok THEN [st |-> st, out |-> <<<<"Error: Invalid argument format for Module::Port.">>>>]
        ELSE IF t.p = <<>> THEN [st |-> st, out |-> <<<<"Error: Must specify a port">>>>]
        ELSE IF m = NULL THEN [st |-> st, out |-> <<<<"Error: Module not found.", t.m>>>>]
        ELSE IF cur_port = NULL
        THEN [st |-> st, out |-> <<<<"Error: Port not found.", t.m, t.p>>>>]
        ELSE IF move_up /\ prev_port = NULL
        THEN [st |-> st, out |-> <<<<"Error: already the first port", t.m, t.p>>>>]
        ELSE IF ~move_up /\ target_port = NULL
        THEN [st |-> st, out |-> <<<<"Error: already the last port", t.m, t.p>>>>]
        ELSE [st |-> SwapPorts(st, m, cur_port, target_port, target_prev),
              out |-> <<<<IF move_up THEN "Moved port up" ELSE "Moved port down",
                          t.m, t.p>>>>]

\* the Destination column of cmd_list
DestLabel(p) ==
    IF p.dir = "DIR_OUT" /\ Len(p.dest_module) > 0
    THEN p.dest_module \o <<":", ":">> \o p.dest_port
    ELSE <<"-", "-">>

cmd_list(st, mod_name) ==
    LET m == get_module(st, mod_name, FALSE).m
        c == Chain(st.heap, st.mods[m].ports, <<>>)
    IN  IF m = NULL THEN [st |-> st, out |-> <<<<"Module not found.">>>>]
        ELSE [st |-> st,
              out |-> <<<<"Module:", st.mods[m].name>>>>
                      \o [k \in 1..Len(c) |->
                            <<"row", st.heap[c[k]].name, st.heap[c[k]].type,
                              dir_to_str(st.heap[c[k]].dir), DestLabel(st.heap[c[k]])>>]]

\* the lines cmd_draw prints for the ports c[k..] of one module
RECURSIVE DrawPorts(_, _, _)
DrawPorts(heap, c, k) ==
    IF k > Len(c) THEN <<>>
    ELSE LET p == heap[c[k]] IN
         (IF p.dir = "DIR_IN" THEN <<<<"-> (IN)", p.name, p.type>>>>
          ELSE IF p.dir = "DIR_OUT"
          THEN <<<<"<- (OUT)", p.name, p.type, p.dest_module, p.dest_port>>>>
          ELSE <<>>)
         \o DrawPorts(heap, c, k + 1)

RECURSIVE DrawFrom(_, _)
DrawFrom(st, i) ==
    IF i > Len(st.mods) THEN <<>>
    ELSE <<<<"[module]", st.mods[i].name>>>>
         \o DrawPorts(st.heap, Chain(st.heap, st.mods[i].ports, <<>>), 1)
         \o DrawFrom(st, i + 1)

cmd_draw(st) == [st |-> st, out |-> DrawFrom(st, 1)]

\* DotEdges without its condition: an edge statement for every port
RECURSIVE DotEdges_AllPorts(_, _, _, _)
DotEdges_AllPorts(heap, mname, c, k) ==
    IF k > Len(c) THEN <<>>
    ELSE <<<<"edge", mname, heap[c[k]].name, heap[c[k]].dest_module, heap[c[k]].dest_port>>>>
         \o DotEdges_AllPorts(heap, mname, c, k + 1)

\* "Define Edges" of cmd_dot: the edge statements of the ports c[k..]
RECURSIVE DotEdges(_, _, _, _)
DotEdges(heap, mname, c, k) ==
    IF k > Len(c) THEN <<>>
    ELSE LET p == heap[c[k]] IN
         (IF p.dir = "DIR_OUT" /\ Len(p.dest_module) > 0
          THEN <<<<"edge", mname, p.name, p.dest_module, p.dest_port>>>>
          ELSE <<>>)
         \o DotEdges(heap, mname, c, k + 1)

RECURSIVE DotFrom(_, _)
DotFrom(st, i) ==
    IF i > Len(st.mods) THEN <<>>
    ELSE DotEdges(st.heap, st.mods[i].name, Chain(st.heap, st.mods[i].ports, <<>>), 1)
         \o DotFrom(st, i + 1)

\* cmd_dot: of graph.dot only the edge statements are modelled
cmd_dot(st) == [st |-> st, out |-> DotFrom(st, 1) \o <<<<"Generated graph.svg successfully.">>>>]

(***************************************************************************)
(* The command lines a session draws from                                  *)
(***************************************************************************)
tAp == <<"A", ":", ":", "p">>
tAq == <<"A", ":", ":", "q">>
tAr == <<"A", ":", ":", "r">>
tApT == <<"A", ":", ":", "p", ":", "t">>
tApU == <<"A", ":", ":", "p", ":", "u">>
tBq == <<"B", ":", ":", "q">>
tB == <<"B">>
tA == <<"A">>
tZ == <<"Z">>
tColons == <<":", ":">>
tBquote == <<"B", "\"", ":", ":", "q">>
tZp == <<"Z", ":", ":", "p">>
tBz == <<"B", ":", ":", "z">>
\* a module name one character longer than a name buffer holds, and the
\* name it is cut to
LongLen == 64
tLong == [i \in 1..LongLen |-> "x"] \o <<":", ":", "p">>
tCut == [i \in 1..(MAX_STR - 1) |-> "x"] \o <<":", ":", "p">>

Cmd(verb, args) == [verb |-> verb, args |-> args]

AddCommands ==
    { Cmd("add", <<tAp, tAq>>), Cmd("add", <<tAr, tB>>), Cmd("add", <<tApT, tBq>>),
      Cmd("add", <<tAp, tAp>>), Cmd("add", <<tBq, tAp>>), Cmd("add", <<tAp, tBquote>>),
      Cmd("add", <<tLong, tBq>>), Cmd("add", <<tCut, tBq>>),
      Cmd("add", <<tA, tBq>>), Cmd("add", <<<<>>, tBq>>), Cmd("add", <<tAp, tColons>>),
      Cmd("add", <<tAp>>), Cmd("add", <<tApT, tApU>>) }

RemoveCommands ==
    { Cmd("remove", <<tAp, tAq>>), Cmd("remove", <<tAr, tB>>), Cmd("remove", <<tApT, tBq>>),
      Cmd("remove", <<tAp, tAp>>), Cmd("remove", <<tBq, tAp>>),
      Cmd("remove", <<tAp, tBquote>>), Cmd("remove", <<tAp, <<>>>>),
      Cmd("remove", <<tAq, tColons>>), Cmd("remove", <<tZp, tBq>>),
      Cmd("remove", <<tBz, tAp>>), Cmd("remove", <<tAp>>) }

EditCommands ==
    { Cmd("edit", <<tAp, <<>>, sOut>>), Cmd("edit", <<tAp, <<"t">>, sIn>>),
      Cmd("ed", <<tAq, <<"t">>, <<"x">>>>), Cmd("edit", <<tAr, <<"u">>, sOut>>),
      Cmd("edit", <<tBz, <<"t">>, sIn>>), Cmd("edit", <<tZp, <<"t">>, sIn>>),
      Cmd("edit", <<tA, <<"t">>, sIn>>), Cmd("edit", <<tAp, <<"t">>>>) }

MoveTargets == { <<tAp>>, <<tAq>>, <<tAr>>, <<tBq>>, <<tZp>>, <<tBz>>, <<tA>>, <<>> }

MoveCommands ==
    { Cmd("mvu", a) : a \in MoveTargets } \cup { Cmd("mvd", a) : a \in MoveTargets }

OtherCommands ==
    { Cmd("list", <<tA>>), Cmd("list", <<tB>>), Cmd("list", <<tZ>>), Cmd("list", <<>>),
      Cmd("draw", <<>>), Cmd("dot", <<>>), Cmd("bogus", <<>>) }

HelpCommands == { Cmd("help", <<>>), Cmd("-h", <<>>) }

Commands ==
    AddCommands \cup RemoveCommands \cup EditCommands \cup MoveCommands \cup OtherCommands

MaxInvocations == 3

(***************************************************************************)
(* main                                                                    *)
(***************************************************************************)
NoArgv == Cmd("", <<>>)
NoHist == [argv |-> NoArgv, before |-> <<>>]

\* The store as a reader of the lists sees it: the modules in order, each
\* with its ports in chain order (cut where a chain comes back on itself).
View(st) ==
    [i \in 1..Len(st.mods) |->
        [name |-> st.mods[i].name,
         ports |-> LET c == Chain(st.heap, st.mods[i].ports, <<>>)
                   IN  [k \in 1..Len(c) |->
                          [name |-> st.heap[c[k]].name,
                           type |-> st.heap[c[k]].type,
                           dir |-> st.heap[c[k]].dir,
                           dest_module |-> st.heap[c[k]].dest_module,
                           dest_port |-> st.heap[c[k]].dest_port]]]]

Exited == pc \in {"start", "exit0", "exit1", "crashed"}

Init ==
    /\ file = <<>>
    /\ pc = "start"
    /\ argv = NoArgv
    /\ mem = EmptyStore
    /\ mem0 = EmptyStore
    /\ out = <<>>
    /\ saved = <<>>
    /\ hist = NoHist
    /\ n = 0

\* links help, links -h: usage, return 0 before load_xml
Help(a) ==
    /\ Exited
    /\ n < MaxInvocations
    /\ pc' = "exit0"
    /\ argv' = NoArgv
    /\ mem' = EmptyStore
    /\ mem0' = EmptyStore
    /\ out' = <<>>
    /\ hist' = NoHist
    /\ n' = n + 1
    /\ UNCHANGED <<file, saved>>

\* a new process running command line a: load_xml() into the empty store
\* (r); a port line whose name scans empty makes it write through NULL
Loaded(a, r) ==
    /\ IF r.crashed
       THEN pc' = "crashed" /\ mem' = EmptyStore /\ mem0' = EmptyStore /\ argv' = NoArgv
       ELSE pc' = "loaded" /\ mem' = r.st /\ mem0' = r.st /\ argv' = a
    /\ out' = <<>>
    /\ n' = n + 1
    /\ UNCHANGED <<file, saved, hist>>

Load ==
    /\ Exited
    /\ n < MaxInvocations
    /\ LET r == load_xml(EmptyStore, file)
       IN  \E a \in Commands : Loaded(a, r)

\* malloc returns NULL in get_module or get_port: exit(1), nothing is saved
AllocFails(r) ==
    /\ Len(r.st.mods) > Len(mem.mods) \/ Len(r.st.heap) > Len(mem.heap)
    /\ pc' = "exit1"
    /\ argv' = NoArgv
    /\ mem' = EmptyStore
    /\ mem0' = EmptyStore
    /\ out' = <<<<"Memory allocation failed">>>>
    /\ hist' = NoHist
    /\ UNCHANGED <<file, saved, n>>

LoadAllocFail ==
    /\ Exited
    /\ n < MaxInvocations
    /\ LET r == load_xml(EmptyStore, file)
       IN  /\ Len(r.st.mods) > 0
           /\ pc' = "exit1"
    /\ argv' = NoArgv
    /\ mem' = EmptyStore
    /\ mem0' = EmptyStore
    /\ out' = <<<<"Memory allocation failed">>>>
    /\ hist' = NoHist
    /\ n' = n + 1
    /\ UNCHANGED <<file, saved>>

Handled(r) ==
    /\ pc' = "handled"
    /\ mem' = r.st
    /\ out' = r.out
    /\ UNCHANGED <<file, argv, mem0, saved, hist, n>>

CmdAdd ==
    /\ pc = "loaded" /\ argv.verb = "add"
    /\ Handled(cmd_add(mem, argv.args))

CmdAddAllocFail ==
    /\ pc = "loaded" /\ argv.verb = "add"
    /\ AllocFails(cmd_add(mem, argv.args))

CmdEdit ==
    /\ pc = "loaded" /\ argv.verb \in {"edit", "ed"}
    /\ Handled(cmd_edit(mem, argv.args))

CmdMoveUp ==
    /\ pc = "loaded" /\ argv.verb = "mvu"
    /\ Handled(cmd_move_port(mem, argv.args, TRUE))

CmdMoveDown ==
    /\ pc = "loaded" /\ argv.verb = "mvd"
    /\ Handled(cmd_move_port(mem, argv.args, FALSE))

CmdList ==
    /\ pc = "loaded" /\ argv.verb = "list" /\ Len(argv.args) + 2 > 2
    /\ Handled(cmd_list(mem, argv.args[1]))

CmdRemove ==
    /\ pc = "loaded" /\ argv.verb = "remove"
    /\ Handled(cmd_remove(mem, argv.args))

CmdDraw ==
    /\ pc = "loaded" /\ argv.verb = "draw"
    /\ Handled(cmd_draw(mem))

CmdDot ==
    /\ pc = "loaded" /\ argv.verb = "dot"
    /\ Handled(cmd_dot(mem))

\* the final else of main: "Unknown command", usage
CmdUnknown ==
    /\ pc = "loaded"
    /\ argv.verb \notin {"add", "edit", "ed", "mvu", "mvd", "remove", "draw", "dot"}
    /\ ~(argv.verb = "list" /\ Len(argv.args) + 2 > 2)
    /\ Handled([st |-> mem, out |-> <<<<"Unknown command", argv.verb>>>>])

\* ghost: what the next invocation remembers of this one
Remember ==
    IF out /= <<>> /\ out[Len(out)][1] \in {"Linked", "Moved port up"}
    THEN [argv |-> argv,
          before |-> IF argv.verb = "mvu" THEN View(mem0) ELSE <<>>]
    ELSE NoHist

\* save_xml() returns; return 0
Save ==
    /\ pc = "handled"
    /\ SaveReturns(mem)
    /\ file' = save_xml(mem)
    /\ pc' = "exit0"
    /\ saved' = View(mem)
    /\ hist' = Remember
    /\ argv' = NoArgv
    /\ mem' = EmptyStore
    /\ mem0' = EmptyStore
    /\ out' = <<>>
    /\ UNCHANGED n

\* save_xml() meets a port chain that comes back on itself: `while (p)`
\* never ends and the process keeps writing the same lines
SaveLoops ==
    /\ pc = "handled"
    /\ ~SaveReturns(mem)
    /\ file' = save_xml(mem)
    /\ pc' = "saving"
    /\ UNCHANGED <<argv, mem, mem0, out, saved, hist, n>>

Next ==
    \/ \E a \in HelpCommands : Help(a)
    \/ Load
    \/ LoadAllocFail
    \/ CmdAdd
    \/ CmdAddAllocFail
    \/ CmdEdit
    \/ CmdMoveUp
    \/ CmdMoveDown
    \/ CmdList
    \/ CmdRemove
    \/ CmdDraw
    \/ CmdDot
    \/ CmdUnknown
    \/ Save
    \/ SaveLoops

Spec == Init /\ [][Next]_vars

(***************************************************************************)
(* Properties                                                              *)
(***************************************************************************)
ModuleNamed(st, name) ==
    LET I == {i \in 1..Len(st.mods) : st.mods[i].name = name}
    IN  IF I = {} THEN 0 ELSE Min(I)

PortNames(st, i) ==
    LET c == Chain(st.heap, st.mods[i].ports, <<>>)
    IN  [k \in 1..Len(c) |-> st.heap[c[k]].name]

Pos(s, x) ==
    LET I == {k \in 1..Len(s) : s[k] = x}
    IN  IF I = {} THEN 0 ELSE Min(I)

\* s with its elements at i and i + 1 exchanged
SwapAt(s, i) ==
    [k \in 1..Len(s) |-> IF k = i THEN s[i + 1] ELSE IF k = i + 1 THEN s[i] ELSE s[k]]

\* the port chain of module i ends (at a NULL)
Ended(st, i) == ~Cyclic(st.heap, st.mods[i].ports, {})

\* The handler of mvu/mvd has run on a port that exists: the token's module
\* and the port's position in the module's chain as loaded.
MoveTarget == parse_arg_safe(argv.args[1])
MoveModule == ModuleNamed(mem0, MoveTarget.m)
MovePos == Pos(PortNames(mem0, MoveModule), MoveTarget.p)
MoveHandled(verb) ==
    /\ pc = "handled" /\ argv.verb = verb /\ Len(argv.args) = 1
    /\ MoveModule /= 0 /\ MovePos /= 0

\* C1: mvd on a port that is not the last of its module exchanges it with
\* its successor: afterwards the module's chain ends, holds every port once
\* and differs from the chain before only in the two exchanged places.
C1_MoveDownSwaps ==
    (MoveHandled("mvd") /\ MovePos < Len(PortNames(mem0, MoveModule)))
    => /\ Ended(mem, MoveModule)
       /\ View(mem) = [View(mem0) EXCEPT ![MoveModule].ports = SwapAt(@, MovePos)]

\* C2: mvu on a port that is not the first of its module exchanges it with
\* its predecessor (at position 2 it becomes the head); every port occurs
\* once, the chain ends, and nothing else in the store changes.
C2_MoveUpSwaps ==
    (MoveHandled("mvu") /\ MovePos > 1)
    => /\ Ended(mem, MoveModule)
       /\ View(mem) = [View(mem0) EXCEPT ![MoveModule].ports = SwapAt(@, MovePos - 1)]

\* a move up from the third place or later, where the finder loop has to
\* walk to the port before the predecessor
C2_Witness ==
    /\ MoveHandled("mvu") /\ MovePos > 2
    /\ out = <<<<"Moved port up", MoveTarget.m, MoveTarget.p>>>>

\* C3: mvu(X) and then mvd(X), X not first, leave the module's port order
\* as it was before the two commands.
C3_UpThenDownRestores ==
    (pc = "handled" /\ argv.verb = "mvd" /\ hist.argv = Cmd("mvu", argv.args))
    => /\ Ended(mem, MoveModule)
       /\ PortNames(mem, MoveModule)
            = [k \in 1..Len(hist.before[MoveModule].ports) |->
                 hist.before[MoveModule].ports[k].name]

\* no quote character in any name, type or destination of the store
QuoteFree(view) ==
    \A i \in 1..Len(view) :
        /\ QUOTE \notin Range(view[i].name)
        /\ \A k \in 1..Len(view[i].ports) :
             LET p == view[i].ports[k]
             IN  QUOTE \notin (Range(p.name) \cup Range(p.type)
                               \cup Range(p.dest_module) \cup Range(p.dest_port))

\* C4: a store without quote characters that save_xml encoded is, once
\* load_xml has decoded the file into the empty store of the next process,
\* the same store: modules, ports, order and every field.
C4_RoundTrip ==
    (pc = "loaded" /\ QuoteFree(saved)) => View(mem) = saved

\* the port named pname of the module named mname, as View shows it
ViewPort(view, mname, pname) ==
    LET i == CHOOSE i \in 1..Len(view) : view[i].name = mname
        k == CHOOSE k \in 1..Len(view[i].ports) : view[i].ports[k].name = pname
    IN  view[i].ports[k]

HasPort(view, mname, pname) ==
    \E i \in 1..Len(view) :
        /\ view[i].name = mname
        /\ \E k \in 1..Len(view[i].ports) : view[i].ports[k].name = pname

\* cmd_add has linked: its two tokens, and the destination port's name
AddHandled ==
    /\ pc = "handled" /\ argv.verb = "add"
    /\ out /= <<>> /\ out[Len(out)][1] = "Linked"
AddSrc == parse_arg_safe(argv.args[1])
AddDst == parse_arg_safe(argv.args[2])
AddDstPort == IF AddDst.p = <<>> THEN AddSrc.p ELSE AddDst.p
SamePort == AddSrc.m = AddDst.m /\ AddSrc.p = AddDstPort

LinkedOut(p, dm, dp) == p.dir = "DIR_OUT" /\ p.dest_module = dm /\ p.dest_port = dp
Input(p) == p.dir = "DIR_IN" /\ p.dest_module = <<>> /\ p.dest_port = <<>>

\* C5 as stated: after every successful add(src, dst), also when both name
\* the same port, the source port is Out with destination (dst module, dst
\* port) and the destination port is In with empty destination.
C5_AddLinksBoth ==
    AddHandled
    => /\ LinkedOut(ViewPort(View(mem), AddSrc.m, AddSrc.p), AddDst.m, AddDstPort)
       /\ Input(ViewPort(View(mem), AddDst.m, AddDstPort))

\* C5 amended: after every successful add(src, dst) the destination port is
\* In with empty destination, whatever it held before; the source port is
\* Out with destination (dst module, dst port) whenever src and dst name
\* different ports (when they name the same port, that port is the
\* destination port and ends In).
C5_AddLinksDistinct ==
    AddHandled
    => /\ Input(ViewPort(View(mem), AddDst.m, AddDstPort))
       /\ ~SamePort
          => LinkedOut(ViewPort(View(mem), AddSrc.m, AddSrc.p), AddDst.m, AddDstPort)

\* an add between two different ports whose destination port was an output
\* with a recorded destination before
C5_Witness ==
    /\ AddHandled /\ ~SamePort
    /\ HasPort(View(mem0), AddDst.m, AddDstPort)
    /\ LET p == ViewPort(View(mem0), AddDst.m, AddDstPort)
       IN  p.dir = "DIR_OUT" /\ p.dest_module /= <<>>

\* C6: a remove(src, dst) that follows a successful add(src, dst) with the
\* same two tokens leaves the source port with direction None and empty
\* destination, its type the one it had after the add.
C6_AddThenRemoveClears ==
    (pc = "handled" /\ argv.verb = "remove" /\ hist.argv = Cmd("add", argv.args))
    => LET s == parse_arg_safe(argv.args[1])
           p == ViewPort(View(mem), s.m, s.p)
       IN  /\ HasPort(View(mem), s.m, s.p)
           /\ p.dir = "DIR_NONE" /\ p.dest_module = <<>> /\ p.dest_port = <<>>
           /\ p.type = ViewPort(saved, s.m, s.p).type

\* C7: every invocation that dispatches a verb completes the save step
\* after its handler and exits with status 0 (a failed malloc exits with
\* status 1 from inside load_xml or the handler, before pc = "handled").
\* From pc = "handled" a process has one next step: Save, which exits with
\* status 0, when save_xml returns, and otherwise SaveLoops, after which it
\* has no next step and never exits.  So the claim holds exactly when no
\* process is ever in the loop of save_xml that does not end.
C7_InvocationsExitZero ==
    /\ pc = "handled" => SaveReturns(mem)
    /\ pc /= "saving"

\* C8: no handler deletes: every module loaded is still in the store after
\* the handler, and every port that was on a module's chain is still on it.
C8_NothingDeleted ==
    pc = "handled"
    => \A i \in 1..Len(mem0.mods) :
          LET j == ModuleNamed(mem, mem0.mods[i].name)
          IN  /\ j /= 0
              /\ Range(PortNames(mem0, i)) \subseteq Range(PortNames(mem, j))

Distinct(s) == \A i, j \in 1..Len(s) : i /= j => s[i] /= s[j]

\* C9: in every store module names are pairwise distinct and, within each
\* module, the names of the ports on its chain are pairwise distinct.
C9_NamesUnique ==
    /\ Distinct([i \in 1..Len(mem.mods) |-> mem.mods[i].name])
    /\ \A i \in 1..Len(mem.mods) : Distinct(PortNames(mem, i))

\* add with a module name longer than a name buffer, while the module it is
\* cut to is already in the store
C9_Witness ==
    /\ AddHandled /\ argv.args[1] = tLong
    /\ Len(AddSrc.m) < Len(ModulePart_NoCut(tLong, strstr(tLong, <<":", ":">>)))
    /\ ModuleNamed(mem0, AddSrc.m) /= 0

\* C10: in every store a port with direction In or None has empty
\* destination-module and destination-port, and destination-module is empty
\* exactly when destination-port is.
C10_DestinationOnlyOnOut ==
    \A i \in 1..Len(View(mem)) : \A k \in 1..Len(View(mem)[i].ports) :
        LET p == View(mem)[i].ports[k]
        IN  /\ p.dir \in {"DIR_IN", "DIR_NONE"}
               => (p.dest_module = <<>> /\ p.dest_port = <<>>)
            /\ (p.dest_module = <<>>) <=> (p.dest_port = <<>>)

\* cmd_edit has run with three arguments on a port that exists: its token,
\* the module's place in the store and the port's place on the chain
EditTarget == parse_arg_safe(argv.args[1])
EditModule == ModuleNamed(mem0, EditTarget.m)
EditPos == Pos(PortNames(mem0, EditModule), EditTarget.p)
EditHandled ==
    /\ pc = "handled" /\ argv.verb \in {"edit", "ed"} /\ Len(argv.args) = 3
    /\ EditModule /= 0 /\ EditPos /= 0
\* the direction a direction token stands for
TokenDir(tok) ==
    IF tok = <<"i", "n">> THEN "DIR_IN"
    ELSE IF tok = <<"o", "u", "t">> THEN "DIR_OUT" ELSE "DIR_NONE"
EditedPort(p, type, dir) ==
    [name |-> p.name, type |-> type, dir |-> dir,
     dest_module |-> IF dir = "DIR_OUT" THEN p.dest_module ELSE <<>>,
     dest_port |-> IF dir = "DIR_OUT" THEN p.dest_port ELSE <<>>]

\* C11: edit(target, type, dirToken) on an existing port sets its type to
\* the given type (as far as a name buffer holds it), its direction to In
\* for "in", Out for "out" and None for any other token; the destination is
\* emptied when the new direction is In or None and kept as it was when it
\* is Out; no other port or module changes.
C11_EditSetsTypeAndDirection ==
    EditHandled
    => View(mem) = [View(mem0) EXCEPT ![EditModule].ports[EditPos] =
                      EditedPort(@, Trunc(argv.args[2], MAX_STR - 1),
                                 TokenDir(argv.args[3]))]

\* edit ... in on a port that was an output with a recorded destination
C11_Witness ==
    /\ EditHandled /\ argv.args[3] = <<"i", "n">>
    /\ LET p == View(mem0)[EditModule].ports[EditPos]
       IN  p.dir = "DIR_OUT" /\ p.dest_module /= <<>> /\ p.type /= argv.args[2]
    /\ out /= <<>> /\ out[1][1] = "Edited port"

\* cmd_remove has run with two arguments; its source token, and whether the
\* source port is missing or records another destination than the dst token
RemoveSrc == parse_arg_safe(argv.args[1])
RemoveDst == parse_arg_safe(argv.args[2])
RemoveHandled == pc = "handled" /\ argv.verb = "remove" /\ Len(argv.args) = 2
RemoveAbsent == ~HasPort(View(mem0), RemoveSrc.m, RemoveSrc.p)
RemoveMismatch ==
    /\ HasPort(View(mem0), RemoveSrc.m, RemoveSrc.p)
    /\ LET p == ViewPort(View(mem0), RemoveSrc.m, RemoveSrc.p)
       IN  p.dest_module /= RemoveDst.m \/ p.dest_port /= RemoveDst.p

\* C12: a remove whose source module or port does not exist, or whose
\* source port records another destination than dst, reports "not found"
\* and leaves the whole store as it was.
C12_RemoveMissReportsNotFound ==
    (RemoveHandled /\ (RemoveAbsent \/ RemoveMismatch))
    => /\ out = <<<<"Link not found.">>>>
       /\ mem = mem0

\* the part of C12 about the store alone: such a remove changes nothing
\* (and prints "Link not found." when the port exists)
RemoveMissKeepsStore ==
    (RemoveHandled /\ (RemoveAbsent \/ RemoveMismatch))
    => /\ mem = mem0
       /\ RemoveMismatch => out = <<<<"Link not found.">>>>

\* cmd_add has run on a command line that one of its checks rejects: a
\* wrong number of arguments, a src or dst token without a module name, or
\* a src token without a port
AddRejected ==
    /\ pc = "handled" /\ argv.verb = "add"
    /\ \/ Len(argv.args) /= 2
       \/ parse_arg_safe(argv.args[1]).m = <<>>
       \/ parse_arg_safe(argv.args[2]).m = <<>>
       \/ parse_arg_safe(argv.args[1]).p = <<>>

\* C13: an add that fails (wrong argument count, src or dst without a
\* module name, src without a port) leaves the store as it was: nothing is
\* created and no field changes; it prints an error and links nothing.
C13_FailedAddLeavesStore ==
    AddRejected
    => /\ mem = mem0
       /\ Len(out) = 1
       /\ out[1][1] \in {"Error: 'add' requires source and destination.",
                         "Error: Invalid source format.",
                         "Error: Invalid destination format.",
                         "Error: Source must specify a port"}

\* an add rejected for its dst token only, whose source module is not in
\* the store: a get-or-create before the check would have created it
C13_Witness ==
    /\ AddRejected /\ Len(argv.args) = 2
    /\ parse_arg_safe(argv.args[1]).p /= <<>>
    /\ parse_arg_safe(argv.args[2]).m = <<>>
    /\ ModuleNamed(mem0, parse_arg_safe(argv.args[1]).m) = 0
    /\ out = <<<<"Error: Invalid destination format.">>>>

\* cmd_edit, cmd_move_port or cmd_list has run with its number of arguments
\* on a target that is not in the store as loaded
LookupTarget == parse_arg_safe(argv.args[1])
PortLookupMissed ==
    /\ pc = "handled"
    /\ \/ argv.verb \in {"edit", "ed"} /\ Len(argv.args) = 3
       \/ argv.verb \in {"mvu", "mvd"} /\ Len(argv.args) = 1
    /\ ~HasPort(View(mem0), LookupTarget.m, LookupTarget.p)
ListLookupMissed ==
    /\ pc = "handled" /\ argv.verb = "list" /\ Len(argv.args) > 0
    /\ ModuleNamed(mem0, argv.args[1]) = 0
ErrorLines ==
    {"Error: Invalid argument format for Module::Port.", "Error: Must specify a port",
     "Error: Module not found.", "Error: Port not found."}

C15_MoveAtBoundaryLeavesStore ==
    /\ (MoveHandled("mvu") /\ MovePos = 1)
       => /\ mem = mem0
          /\ out = <<<<"Error: already the first port", MoveTarget.m, MoveTarget.p>>>>
    /\ (MoveHandled("mvd") /\ MovePos = Len(PortNames(mem0, MoveModule)))
       => /\ mem = mem0
          /\ out = <<<<"Error: already the last port", MoveTarget.m, MoveTarget.p>>>>

\* mvd on the last port of a module that has other ports before it
C15_Witness ==
    /\ MoveHandled("mvd") /\ MovePos > 1
    /\ MovePos = Len(PortNames(mem0, MoveModule))
    /\ out = <<<<"Error: already the last port", MoveTarget.m, MoveTarget.p>>>>

(***************************************************************************)
(* parse_arg_safe on its own: every token over an alphabet with ':' up to  *)
(* MaxTokenLen characters, and tokens whose fields are as long as, or      *)
(* longer than, a name buffer holds.  argv is the token, out the result.   *)
(***************************************************************************)
MaxTokenLen == 5
Alphabet == {"a", "b", ":"}
ShortTokens == UNION {[1..k -> Alphabet] : k \in 0..MaxTokenLen}
Xs(k) == [i \in 1..k |-> "x"]
FieldLens == {1, LongLen - 1, LongLen}
LongTokens ==
    {Xs(k1) \o <<":", ":">> \o Xs(k2) \o <<":">> \o Xs(k3) :
        k1 \in FieldLens, k2 \in FieldLens, k3 \in FieldLens}
    \cup {Xs(k) : k \in FieldLens}
    \cup {Xs(k1) \o <<":", ":">> \o Xs(k2) : k1 \in FieldLens, k2 \in FieldLens}

ParseInit ==
    /\ argv \in ShortTokens \cup LongTokens
    /\ pc = "parse"
    /\ out = <<>>
    /\ file = <<>> /\ mem = EmptyStore /\ mem0 = EmptyStore
    /\ saved = <<>> /\ hist = NoHist /\ n = 0

ParseStep ==
    /\ pc = "parse"
    /\ out' = parse_arg_safe(argv)
    /\ pc' = "parsed"
    /\ UNCHANGED <<file, argv, mem, mem0, saved, hist, n>>

ParseSpec == ParseInit /\ [][ParseStep]_vars

\* a field cut to the maximum name length
Cut(x) == [i \in 1..(IF Len(x) < MAX_STR - 1 THEN Len(x) ELSE MAX_STR - 1) |-> x[i]]
SepAt(s, i) == i >= 1 /\ i < Len(s) /\ s[i] = ":" /\ s[i + 1] = ":"
\* r is what the grammar of reference tokens assigns to s
ParsedAs(s, r) ==
    /\ IF \A i \in 1..Len(s) : ~SepAt(s, i)
       THEN r.m = Cut(s) /\ r.p = <<>> /\ r.t = <<>>
       ELSE \E i \in 1..Len(s) :
              /\ SepAt(s, i) /\ \A j \in 1..(i - 1) : ~SepAt(s, j)
              /\ r.m = Cut(SubSeq(s, 1, i - 1))
              /\ LET rest == SubSeq(s, i + 2, Len(s))
                 IN  IF ":" \notin Range(rest)
                     THEN r.p = Cut(rest) /\ r.t = <<>>
                     ELSE \E k \in 1..Len(rest) :
                            /\ rest[k] = ":" /\ \A j \in 1..(k - 1) : rest[j] /= ":"
                            /\ r.p = Cut(SubSeq(rest, 1, k - 1))
                            /\ r.t = Cut(SubSeq(rest, k + 1, Len(rest)))
    /\ r.ok = (r.m /= <<>>)

\* C16: for every token, without "::" the module is the whole token and
\* port and type are empty; otherwise the module is the text before the
\* first "::", the port the text of the remainder before its first ':' and
\* the type everything after that ':' (without ':' the port is the whole
\* remainder and the type is empty); each field is cut to the maximum name
\* length; the parser succeeds exactly when the module name is not empty.
C16_ParserFollowsGrammar == pc = "parsed" => ParsedAs(argv, out)

\* a token whose module, port and type are all longer than a name holds
C16_Witness ==
    /\ pc = "parsed" /\ out.ok
    /\ Len(out.m) = MAX_STR - 1 /\ Len(out.p) = MAX_STR - 1 /\ Len(out.t) = MAX_STR - 1
    /\ Len(argv) > 3 * MAX_STR

\* the types cmd_add gives the two ports of the command line in argv
AddSrcType == IF AddSrc.t = <<>> THEN <<"u", "n", "k", "n", "o", "w", "n">> ELSE AddSrc.t
AddDstType == IF AddDst.t = <<>> THEN AddSrcType ELSE AddDst.t
\* the same for the add of the previous invocation
PrevSrc == parse_arg_safe(hist.argv.args[1])
PrevDst == parse_arg_safe(hist.argv.args[2])
PrevDstPort == IF PrevDst.p = <<>> THEN PrevSrc.p ELSE PrevDst.p
PrevSrcType == IF PrevSrc.t = <<>> THEN <<"u", "n", "k", "n", "o", "w", "n">> ELSE PrevSrc.t
PrevDstType == IF PrevDst.t = <<>> THEN PrevSrcType ELSE PrevDst.t
\* cmd_list has run in the invocation after a successful add between two
\* different ports
ListAfterAdd ==
    /\ pc = "handled" /\ argv.verb = "list" /\ Len(argv.args) = 1
    /\ hist.argv.verb = "add"
    /\ ~(PrevSrc.m = PrevDst.m /\ PrevSrc.p = PrevDstPort)

\* the defaults of add in the store after the handler, for every add
AddDefaultsAnyPorts ==
    AddHandled
    => /\ HasPort(View(mem), AddSrc.m, AddSrc.p)
       /\ HasPort(View(mem), AddDst.m, AddDstPort)
       /\ ViewPort(View(mem), AddSrc.m, AddSrc.p).type = AddSrcType
       /\ ViewPort(View(mem), AddDst.m, AddDstPort).type = AddDstType

\* the same for the adds between two different ports (when src and dst
\* name one port, it ends with the destination's type)
AddDefaultsInStore ==
    (AddHandled /\ ~SamePort)
    => /\ HasPort(View(mem), AddSrc.m, AddSrc.p)
       /\ HasPort(View(mem), AddDst.m, AddDstPort)
       /\ ViewPort(View(mem), AddSrc.m, AddSrc.p).type = AddSrcType
       /\ ViewPort(View(mem), AddDst.m, AddDstPort).type = AddDstType

\* what list shows in the next invocation
AddDefaultsListed ==
    ListAfterAdd
    => /\ argv.args[1] = PrevSrc.m
          => <<"row", PrevSrc.p, PrevSrcType, <<"o", "u", "t">>,
               PrevDst.m \o <<":", ":">> \o PrevDstPort>> \in Range(out)
       /\ argv.args[1] = PrevDst.m
          => <<"row", PrevDstPort, PrevDstType, <<"i", "n">>, <<"-", "-">>>> \in Range(out)

\* what list shows in the next invocation when no name of the add holds a
\* quote character
AddDefaultsListedQuoteFree ==
    (ListAfterAdd /\ QUOTE \notin UNION {Range(t) : t \in Range(hist.argv.args)})
    => /\ argv.args[1] = PrevSrc.m
          => <<"row", PrevSrc.p, PrevSrcType, <<"o", "u", "t">>,
               PrevDst.m \o <<":", ":">> \o PrevDstPort>> \in Range(out)
       /\ argv.args[1] = PrevDst.m
          => <<"row", PrevDstPort, PrevDstType, <<"i", "n">>, <<"-", "-">>>> \in Range(out)

\* C17: after a successful add the source port's type is the src token's
\* type, or "unknown" when it has none; the destination port is named by
\* the dst token, or like the source port when the token names none, and
\* its type is the dst token's, or the source port's resulting type; so
\* after add(S::P:T1, D::Q) between different ports list(S) shows P with
\* T1, out and D::Q, and list(D) shows Q with T1, in and "--".  (The
\* store part is stated for adds between different ports.)
C17_AddDefaults == AddDefaultsInStore /\ AddDefaultsListed

\* the places <<module, port>> of the ports of a store that have direction
\* Out and a destination module, and their order in the store
Linked(view) ==
    {ik \in UNION {{<<i, k>> : k \in 1..Len(view[i].ports)} : i \in 1..Len(view)} :
        /\ view[ik[1]].ports[ik[2]].dir = "DIR_OUT"
        /\ view[ik[1]].ports[ik[2]].dest_module /= <<>>}
Before(a, b) == a[1] < b[1] \/ (a[1] = b[1] /\ a[2] < b[2])
\* the x-th of them in store order
LinkedAt(view, x) ==
    CHOOSE a \in Linked(view) : Cardinality({b \in Linked(view) : Before(b, a)}) = x - 1
IsEdge(line) == line[1] = "edge"
DotHandled == pc = "handled" /\ argv.verb = "dot"

\* the edge statements of dot against the linked ports of the store
DotEdgesInOrder ==
    DotHandled
    => LET view == View(mem)
           E == SelectSeq(out, IsEdge)
       IN  /\ Len(E) = Cardinality(Linked(view))
           /\ \A x \in 1..Len(E) :
                LET a == LinkedAt(view, x)
                    p == view[a[1]].ports[a[2]]
                IN  E[x] = <<"edge", view[a[1]].name, p.name, p.dest_module, p.dest_port>>
           /\ mem = mem0

\* dot in the invocation after add(A::p:t, B::q) on an empty store prints
\* the one edge A:p -> B:q
DotAfterFirstAdd ==
    (DotHandled /\ n = 2 /\ hist.argv = Cmd("add", <<tApT, tBq>>))
    => SelectSeq(out, IsEdge) = <<<<"edge", <<"A">>, <<"p">>, <<"B">>, <<"q">>>>>>

\* C19: dot emits exactly one edge statement module:port -> destination
\* module:destination port for every port with direction Out and a
\* non-empty destination module, in store order, and none for any other
\* port; whether the target exists is not looked at.
\* From an empty store, add and then dot give the one edge of the add.
C19_DotEdges == DotEdgesInOrder /\ DotAfterFirstAdd

\* dot on a store with a linked port, with a port that gets no edge, and
\* with an edge whose target is not a port of the store
C19_Witness ==
    /\ DotHandled
    /\ \E x \in 1..Len(out) :
         /\ IsEdge(out[x])
         /\ ~HasPort(View(mem), out[x][4], out[x][5])
    /\ \E i \in 1..Len(View(mem)) : \E k \in 1..Len(View(mem)[i].ports) :
         <<i, k>> \notin Linked(View(mem))

\* the number of lines a rendering with one line for each module and one
\* for each port has before module i
RECURSIVE LinesBefore(_, _)
LinesBefore(view, i) ==
    IF i <= 1 THEN 0 ELSE LinesBefore(view, i - 1) + 1 + Len(view[i - 1].ports)
DrawHandled == pc = "handled" /\ argv.verb = "draw"

\* C20: draw renders every module and every port in store order: a line
\* for each module followed by one line for each of its ports, whatever its
\* direction; an In port as a receiver, an Out port with its destination;
\* and draw leaves the store as it was.
C20_DrawRendersAll ==
    DrawHandled
    => LET view == View(mem)
       IN  /\ mem = mem0
           /\ Len(out) = LinesBefore(view, Len(view) + 1)
           /\ \A i \in 1..Len(view) :
                /\ out[LinesBefore(view, i) + 1] = <<"[module]", view[i].name>>
                /\ \A k \in 1..Len(view[i].ports) :
                     LET p == view[i].ports[k]
                         line == out[LinesBefore(view, i) + 1 + k]
                     IN  IF p.dir = "DIR_IN" THEN line = <<"-> (IN)", p.name, p.type>>
                         ELSE IF p.dir = "DIR_OUT"
                         THEN line = <<"<- (OUT)", p.name, p.type, p.dest_module, p.dest_port>>
                         ELSE line[2] = p.name

\* the part of C20 that leaves out the ports without direction: draw
\* prints the module lines and the lines of the In and Out ports, in store
\* order, and leaves the store as it was
NoDirection(p) == p.dir = "DIR_NONE"
DrawRendersDirected ==
    DrawHandled
    => LET view == View(mem)
           shown == [i \in 1..Len(view) |->
                       [view[i] EXCEPT !.ports = SelectSeq(@, LAMBDA p : ~NoDirection(p))]]
       IN  /\ mem = mem0
           /\ Len(out) = LinesBefore(shown, Len(shown) + 1)
           /\ \A i \in 1..Len(shown) :
                /\ out[LinesBefore(shown, i) + 1] = <<"[module]", shown[i].name>>
                /\ \A k \in 1..Len(shown[i].ports) :
                     LET p == shown[i].ports[k]
                         line == out[LinesBefore(shown, i) + 1 + k]
                     IN  IF p.dir = "DIR_IN" THEN line = <<"-> (IN)", p.name, p.type>>
                         ELSE line = <<"<- (OUT)", p.name, p.type, p.dest_module, p.dest_port>>

(***************************************************************************)
(* Two invocations of main at the same time on one links_data.xml.  Each   *)
(* process p has its own store; pc, argv, mem, mem0 and out are functions  *)
(* of the process here.  load_xml and save_xml are taken as one step each  *)
(* (a reader never sees a half-written file).  Ghosts: saved is the file   *)
(* the two processes started from, hist the loads and saves in the order   *)
(* they happened.                                                          *)
(***************************************************************************)
Procs == {1, 2}

RaceCommands ==
    { Cmd("add", <<tAp, tAq>>), Cmd("add", <<tAr, tB>>), Cmd("add", <<tBq, tAp>>),
      Cmd("edit", <<tAp, <<"t">>, sIn>>), Cmd("remove", <<tAp, tAq>>),
      Cmd("bogus", <<>>) }

RaceFiles == { <<>>, save_xml(cmd_add(EmptyStore, <<tAp, tAq>>).st) }

\* the if-chain of main on the verbs of RaceCommands
Dispatch(st, a) ==
    IF a.verb = "add" THEN cmd_add(st, a.args)
    ELSE IF a.verb \in {"edit", "ed"} THEN cmd_edit(st, a.args)
    ELSE IF a.verb = "remove" THEN cmd_remove(st, a.args)
    ELSE [st |-> st, out |-> <<<<"Unknown command", a.verb>>>>]

RaceInit ==
    /\ file \in RaceFiles
    /\ saved = file
    /\ argv \in [Procs -> RaceCommands]
    /\ pc = [p \in Procs |-> "start"]
    /\ mem = [p \in Procs |-> EmptyStore]
    /\ mem0 = [p \in Procs |-> EmptyStore]
    /\ out = [p \in Procs |-> <<>>]
    /\ hist = <<>>
    /\ n = 0

RaceLoad(p) ==
    /\ pc[p] = "start"
    /\ LET r == load_xml(EmptyStore, file)
       IN  /\ ~r.crashed
           /\ mem' = [mem EXCEPT ![p] = r.st]
           /\ mem0' = [mem0 EXCEPT ![p] = r.st]
    /\ pc' = [pc EXCEPT ![p] = "loaded"]
    /\ hist' = Append(hist, <<"load", p>>)
    /\ UNCHANGED <<file, argv, out, saved, n>>

RaceCmd(p) ==
    /\ pc[p] = "loaded"
    /\ LET r == Dispatch(mem[p], argv[p])
       IN  /\ mem' = [mem EXCEPT ![p] = r.st]
           /\ out' = [out EXCEPT ![p] = r.out]
    /\ pc' = [pc EXCEPT ![p] = "handled"]
    /\ UNCHANGED <<file, argv, mem0, saved, hist, n>>

RaceSave(p) ==
    /\ pc[p] = "handled"
    /\ SaveReturns(mem[p])
    /\ file' = save_xml(mem[p])
    /\ pc' = [pc EXCEPT ![p] = "exit0"]
    /\ hist' = Append(hist, <<"save", p>>)
    /\ UNCHANGED <<argv, mem, mem0, out, saved, n>>

RaceNext == \E p \in Procs : RaceLoad(p) \/ RaceCmd(p) \/ RaceSave(p)

RaceSpec == RaceInit /\ [][RaceNext]_vars

\* both processes have exited; the process that saved last and the other
BothExited == \A p \in Procs : pc[p] = "exit0"
LastSaver == hist[Len(hist)][2]
FirstSaver == CHOOSE p \in Procs : p /= LastSaver
\* the two ran one after the other / both loaded before either saved
Serial == hist[2] = <<"save", hist[1][2]>>
Overlapped == hist[1][1] = "load" /\ hist[2][1] = "load"
\* the store in the file, and the store one invocation of a leaves from f
Stored(f) == View(load_xml(EmptyStore, f).st)
RunOn(f, a) == Dispatch(load_xml(EmptyStore, f).st, a).st
\* the store after a and then b, one after the other, from the first file
SerialResult(a, b) == View(RunOn(save_xml(RunOn(saved, a)), b))
Succeeded(p) ==
    out[p] /= <<>> /\ out[p][Len(out[p])][1] \in {"Linked", "Edited port", "Link removed."}

\* C18: two invocations on one file are not isolated.  When both load
\* before either saves, the file ends as the invocation that saved last
\* leaves it when it runs alone: the mutation of the other is lost, also
\* when both reported success.  When they run one after the other, the file
\* ends with the effects of both, the second applied to the result of the
\* first.
C18_LostUpdate ==
    BothExited
    => /\ Overlapped => Stored(file) = View(RunOn(saved, argv[LastSaver]))
       /\ Serial => Stored(file) = SerialResult(argv[FirstSaver], argv[LastSaver])
       /\ Overlapped \/ Serial

\* a lost update: both loaded before either saved, both reported success,
\* and the file is the result of neither serial order and lacks the link
\* the first saver made
C18_Witness ==
    /\ BothExited /\ Overlapped
    /\ \A p \in Procs : Succeeded(p)
    /\ Stored(file) /= SerialResult(argv[1], argv[2])
    /\ Stored(file) /= SerialResult(argv[2], argv[1])
    /\ argv[FirstSaver].verb = "add"
    /\ LET a == parse_arg_safe(argv[FirstSaver].args[1])
       IN  /\ HasPort(View(mem[FirstSaver]), a.m, a.p)
           /\ ~HasPort(Stored(file), a.m, a.p)

\* a is a prefix of b
IsPrefix(a, b) == Len(a) <= Len(b) /\ SubSeq(b, 1, Len(a)) = a
ModuleNames(st) == [i \in 1..Len(st.mods) |-> st.mods[i].name]
\* port names a lookup may ask for: one the sessions use and one they never use
ProbeNames == {<<"p">>, <<"n">>}

\* after a handler the modules from before are the first modules, in their
\* order; and unless the handler was a move, the ports each module had are
\* its first ports, in their order
CreationAppends ==
    pc = "handled"
    => /\ IsPrefix(ModuleNames(mem0), ModuleNames(mem))
       /\ argv.verb \notin {"mvu", "mvd"}
          => \A i \in 1..Len(mem0.mods) : IsPrefix(PortNames(mem0, i), PortNames(mem, i))

\* an add that creates both modules puts the source module first; an add
\* that creates both ports in one module puts the source port first
AddCreatesSourceFirst ==
    AddHandled
    => /\ (/\ ModuleNamed(mem0, AddSrc.m) = 0 /\ ModuleNamed(mem0, AddDst.m) = 0
           /\ AddSrc.m /= AddDst.m)
          => ModuleNamed(mem, AddSrc.m) < ModuleNamed(mem, AddDst.m)
       /\ (/\ AddSrc.m = AddDst.m /\ AddSrc.p /= AddDstPort
           /\ ~HasPort(View(mem0), AddSrc.m, AddSrc.p)
           /\ ~HasPort(View(mem0), AddDst.m, AddDstPort))
          => LET names == PortNames(mem, ModuleNamed(mem, AddSrc.m))
             IN  Pos(names, AddSrc.p) < Pos(names, AddDstPort)

\* get_port creating a port in a module of a loaded store: the new port is
\* the last of the module's chain and has type "", direction None and an
\* empty destination
NewPortDefaults ==
    pc = "loaded"
    => \A i \in 1..Len(mem.mods) : \A name \in ProbeNames :
          LET r == get_port(mem, i, name, TRUE)
          IN  r.p > Len(mem.heap)
              => /\ PortNames(r.st, i) = Append(PortNames(mem, i), name)
                 /\ View(r.st)[i].ports[Len(PortNames(r.st, i))]
                      = [name |-> name, type |-> <<>>, dir |-> "DIR_NONE",
                         dest_module |-> <<>>, dest_port |-> <<>>]
                 /\ \A j \in 1..Len(mem.mods) : j /= i => View(r.st)[j] = View(mem)[j]

\* C21: creation appends at the tail and never reorders: after any command
\* the earlier module sequence is a prefix of the new one, and after any
\* command but mvu/mvd each module's earlier port sequence is a prefix of
\* its new one; an add that creates both endpoints puts the source module
\* before the destination module and, in one module, the source port before
\* the destination port; a new port starts with type "", direction None and
\* empty destination.
C21_CreationAppendsAtTail == CreationAppends /\ AddCreatesSourceFirst /\ NewPortDefaults

\* an add that creates both its ports in a module that is already in the
\* store with other ports
C21_Witness ==
    /\ AddHandled /\ AddSrc.m = AddDst.m /\ AddSrc.p /= AddDstPort
    /\ ModuleNamed(mem0, AddSrc.m) /= 0
    /\ Len(PortNames(mem0, ModuleNamed(mem0, AddSrc.m))) > 0
    /\ ~HasPort(View(mem0), AddSrc.m, AddSrc.p)
    /\ ~HasPort(View(mem0), AddDst.m, AddDstPort)
    /\ Len(PortNames(mem, ModuleNamed(mem, AddSrc.m)))
         = Len(PortNames(mem0, ModuleNamed(mem0, AddSrc.m))) + 2

\* ---------------------------------------------------------------------
\* get_module and get_port on their own: a caller applies them, with any
\* name, to the store the earlier calls left.  argv is the call, out the
\* address it returned, hist the call before it with its result.
MaxCalls == 3
LookupNames == {<<>>, <<"a">>, Xs(LongLen - 1), Xs(LongLen)}
NoCall == [fn |-> "", m |-> NULL, name |-> <<>>, create |-> FALSE]

LookupInit ==
    /\ mem = EmptyStore
    /\ pc = "call"
    /\ argv = NoCall
    /\ out = NULL
    /\ hist = [call |-> NoCall, ret |-> NULL]
    /\ n = 0
    /\ file = <<>> /\ mem0 = EmptyStore /\ saved = <<>>

CallGetModule ==
    /\ n < MaxCalls
    /\ \E name \in LookupNames : \E create \in BOOLEAN :
          LET r == get_module(mem, name, create)
          IN  /\ mem' = r.st
              /\ out' = r.m
              /\ argv' = [fn |-> "get_module", m |-> NULL, name |-> name, create |-> create]
    /\ hist' = [call |-> argv, ret |-> out]
    /\ mem0' = mem
    /\ n' = n + 1
    /\ UNCHANGED <<file, pc, saved>>

CallGetPort ==
    /\ n < MaxCalls
    /\ \E m \in 0..Len(mem.mods) : \E name \in LookupNames : \E create \in BOOLEAN :
          LET r == get_port(mem, m, name, create)
          IN  /\ mem' = r.st
              /\ out' = r.p
              /\ argv' = [fn |-> "get_port", m |-> m, name |-> name, create |-> create]
    /\ hist' = [call |-> argv, ret |-> out]
    /\ mem0' = mem
    /\ n' = n + 1
    /\ UNCHANGED <<file, pc, saved>>

LookupNext == CallGetModule \/ CallGetPort

LookupSpec == LookupInit /\ [][LookupNext]_vars

\* the call repeats the call before it, which was a creating call that
\* returned a node
Repeated ==
    /\ hist.call.fn = argv.fn /\ hist.call.m = argv.m /\ hist.call.name = argv.name
    /\ hist.call.create /\ hist.ret /= NULL
\* how many nodes the list the call searched holds under the name's truncation
StoredUnder(name) ==
    IF argv.fn = "get_module"
    THEN Cardinality({i \in 1..Len(mem.mods) : mem.mods[i].name = Cut(name)})
    ELSE LET names == PortNames(mem, argv.m)
         IN  Cardinality({i \in 1..Len(names) : names[i] = Cut(name)})

\* C22: get-or-create is idempotent for every name, names longer than the
\* maximum length included: a second get_module (get_port, in one module)
\* with the name of a creating call, creating or not, returns the node the
\* first call created, and the list then holds exactly one node for the
\* name, stored under its truncation.
C22_GetOrCreateIdempotent ==
    Repeated => out = hist.ret /\ StoredUnder(argv.name) = 1

\* the same for names that fit the name buffer
IdempotentWithinLength ==
    Repeated /\ Len(argv.name) < MAX_STR
    => out = hist.ret /\ mem = mem0 /\ StoredUnder(argv.name) = 1
\* reached: a repeated creating call with a name of MAX_STR - 1 characters
IdempotentWithinLength_Witness ==
    Repeated /\ argv.create /\ Len(argv.name) = MAX_STR - 1 /\ argv.fn = "get_port"

\* the ports of a view that record a destination
Linking(view) ==
    {x \in UNION {Range(view[i].ports) : i \in 1..Len(view)} :
        x.dest_module /= <<>> /\ x.dest_port /= <<>>}
\* every recorded destination is a port some module's chain reaches
Resolved(view) ==
    \A x \in Linking(view) : HasPort(view, x.dest_module, x.dest_port)

\* C23: referential integrity through the commands: in every store the
\* invocations of add/remove/edit/mvu/mvd reach from the empty store, every
\* port with a non-empty destination names a module of the store and a port
\* that module's chain reaches.
C23_ReferentialIntegrity == Resolved(View(mem))

\* the same for every store of an invocation that is not a move-down
ResolvedWithoutMoveDown ==
    argv.verb /= "mvd" => Resolved(View(mem))
\* reached: a link between two modules in an invocation that is not a move-down
ResolvedWithoutMoveDown_Witness ==
    /\ pc = "handled" /\ argv.verb = "remove"
    /\ \E x \in Linking(View(mem)) : ModuleNamed(mem, x.dest_module) > 1

\* the source port of the remove as the store held it before the handler,
\* and whether it recorded no destination then
RemoveSrcBefore == ViewPort(View(mem0), RemoveSrc.m, RemoveSrc.p)
RemoveSrcUnlinked ==
    /\ HasPort(View(mem0), RemoveSrc.m, RemoveSrc.p)
    /\ RemoveSrcBefore.dest_module = <<>> /\ RemoveSrcBefore.dest_port = <<>>
\* a source port without destination is after the remove as it was before
RemoveKeepsUnlinkedSource ==
    (RemoveHandled /\ RemoveSrcUnlinked)
    => ViewPort(View(mem), RemoveSrc.m, RemoveSrc.p) = RemoveSrcBefore
\* the remove has cleared a link to another port of the store
RemoveSucceeded ==
    /\ RemoveHandled /\ out = <<<<"Link removed.">>>>
    /\ HasPort(View(mem0), RemoveDst.m, RemoveDst.p)
    /\ ~(RemoveDst.m = RemoveSrc.m /\ RemoveDst.p = RemoveSrc.p)
\* the former destination port is as it was: an In port is still In
RemoveKeepsDestination ==
    RemoveSucceeded
    => ViewPort(View(mem), RemoveDst.m, RemoveDst.p)
         = ViewPort(View(mem0), RemoveDst.m, RemoveDst.p)
RemoveKeepsDestination_Witness ==
    /\ RemoveSucceeded /\ RemoveSrcBefore.dir = "DIR_OUT"
    /\ ViewPort(View(mem), RemoveDst.m, RemoveDst.p).dir = "DIR_IN"

\* C24: remove changes a port only if the port records a link: whatever the
\* dst token, an empty one or one that parses to an empty module and port
\* included, a source port whose destination fields are empty keeps its
\* direction; and a successful remove leaves the former destination port as
\* it was, an In port with direction In.
C24_RemoveOnlyChangesLinks == RemoveKeepsUnlinkedSource /\ RemoveKeepsDestination

\* the first half for dst tokens that name a module
RemoveKeepsUnlinkedSourceNamedDst ==
    (RemoveHandled /\ RemoveSrcUnlinked /\ RemoveDst.m /= <<>>)
    => ViewPort(View(mem), RemoveSrc.m, RemoveSrc.p) = RemoveSrcBefore
RemoveKeepsUnlinkedSourceNamedDst_Witness ==
    RemoveHandled /\ RemoveSrcUnlinked /\ RemoveDst.m /= <<>>
    /\ RemoveSrcBefore.dir = "DIR_IN"

\* the messages of a command that fails
FailureLines ==
    ErrorLines \cup
    {"Error: 'add' requires source and destination.", "Error: Invalid source format.",
     "Error: Invalid destination format.", "Error: Source must specify a port",
     "Error: 'edit' requires module, port, and new type.",
     "Error: requires a target port.", "Error: already the first port",
     "Error: already the last port", "Usage: links remove", "Link not found.",
     "Module not found."}
\* the handler of the invocation has run and was list, draw, dot, the
\* branch for an unrecognized command line, or a command that failed
ReadOnlyOrFailed ==
    /\ pc = "handled"
    /\ \/ argv.verb \notin {"add", "edit", "ed", "mvu", "mvd", "remove"}
       \/ out /= <<>> /\ out[1][1] \in FailureLines
\* such an invocation ends by writing the data file
WritesBack == ReadOnlyOrFailed /\ pc' = "exit0"

\* C25: read-only and failing invocations leave the persisted store as it
\* was: an invocation of list, draw, dot, an unrecognized verb or a command
\* that fails with an error, run on a data file that earlier invocations
\* wrote, writes back the file it read.
C25_ReadOnlyKeepsPersisted ==
    [][(WritesBack /\ file /= <<>>) => file' = file]_vars

\* the handler's part: such a handler leaves the store in memory as
\* load_xml built it
ReadOnlyKeepsMemory == ReadOnlyOrFailed => mem = mem0
\* the invocation's part when load_xml rebuilt the store that the last
\* invocation saved
ReadOnlyKeepsDecoded ==
    [][(WritesBack /\ file /= <<>> /\ View(mem0) = saved) => file' = file]_vars
\* reached: a failing command on a store with a link, decoded as saved
ReadOnlyKeepsDecoded_Witness ==
    /\ ReadOnlyOrFailed /\ out /= <<>> /\ out[1][1] \in FailureLines
    /\ View(mem0) = saved /\ Linking(saved) /= {}
====
